---- MODULE Spec2Model ----
(***************************************************************************)
(* riapyx: the debugger console thread, the command channel and the main   *)
(* emulator loop of src/main.rs.  The console thread reads lines, parses   *)
(* them into command values and sends them over a sync_channel(1); the     *)
(* emulator thread polls the channel with try_recv and either executes the *)
(* received command against the machine or calls Machine::step.            *)
(*                                                                         *)
(* machine.rs is not part of the sources at hand: the Machine's run flag,  *)
(* trace flag, program counter and breakpoint set follow the written       *)
(* specification (sections 3, 4.2 and 4.9).                                *)
(***************************************************************************)
EXTENDS Integers, Sequences, FiniteSets, TLC

\* ------------------------------------------------------------------ bounds
\* number of input lines the user types on standard input
MaxLines == 2
\* longest string handed to the hex parser
MaxHexLen == 9

\* ------------------------------------------------------- program constants
ZERO_U8 == 48
NINE_U8 == 57
A_U8 == 97
F_U8 == 102
\* mpsc::sync_channel(1)
CHANNEL_BOUND == 1
\* m.print_memory(self.seg, self.addr, 16)
DUMP_COUNT == 16
\* std::process::exit(0)
EXIT_OK == 0
\* exit status of a process whose main thread panicked
PANIC_EXIT == 101

\* limbs of a u32 / width of a u16
U16 == 65536

\* thread names
EMU == "emulator"
CON == "console"

\* ------------------------------------------------------------ input lines
\* a token is the sequence of its bytes; a line is the sequence of tokens
\* produced by split_whitespace
TOK_q == <<113>>
TOK_d == <<100>>
TOK_c == <<99>>
TOK_t == <<116>>
TOK_b == <<98>>
TOK_u == <<117>>
TOK_w == <<119>>
TOK_x == <<120>>
\* "0000"
TOK_0000 == <<48, 48, 48, 48>>
\* "7c00"
TOK_7c00 == <<55, 99, 48, 48>>
\* "7C00" (uppercase)
TOK_7C00 == <<55, 67, 48, 48>>
\* "1007c": wider than 16 bits
TOK_1007c == <<49, 48, 48, 55, 99>>
\* "100000000": nine digits, wider than 32 bits
TOK_9digits == <<49, 48, 48, 48, 48, 48, 48, 48, 48>>
\* "mem.bin"
TOK_file == <<109, 101, 109>>

Lines ==
    { <<>>,
      <<TOK_q>>,
      <<TOK_c>>,
      <<TOK_t>>,
      <<TOK_d>>,
      <<TOK_d, TOK_0000>>,
      <<TOK_d, TOK_7C00>>,
      <<TOK_d, TOK_0000, TOK_7c00>>,
      <<TOK_d, TOK_1007c, TOK_0000>>,
      <<TOK_d, TOK_0000, TOK_7C00>>,
      <<TOK_d, TOK_9digits, TOK_0000>>,
      <<TOK_b, TOK_0000, TOK_7c00>>,
      <<TOK_u, TOK_0000, TOK_7c00>>,
      <<TOK_w, TOK_file>>,
      <<TOK_x>> }

\* (CS, IP) values the guest program visits
PCs == { <<0, 31744>>, <<0, 31746>> }

\* ------------------------------------------------------------ hex parser
PANIC == [hi |-> -1, lo |-> -1]

IsDecDigit(c) == c >= ZERO_U8 /\ c <= NINE_U8
IsHexLetter(c) == c >= A_U8 /\ c <= F_U8

\* variant: uppercase A-F are taken as digits too
ToAddAnyCase(c) ==
    IF IsDecDigit(c) THEN c - ZERO_U8
    ELSE IF IsHexLetter(c) THEN (c - A_U8) + 10
    ELSE IF c >= 65 /\ c <= 70 THEN (c - 65) + 10
    ELSE -1

\* the match on *c of u32_from_hex_str; -1 stands for the panic! arm
ToAdd(c) ==
    IF IsDecDigit(c) THEN c - ZERO_U8
    ELSE IF IsHexLetter(c) THEN (c - A_U8) + 10
    ELSE -1

\* The u32 accumulator is kept as two 16-bit limbs (hi, lo).  `checks' is
\* whether the build traps arithmetic overflow (debug) or wraps (release).
RECURSIVE HexLoop(_, _, _, _)
HexLoop(s, hi, lo, checks) ==
    IF s = <<>> THEN [hi |-> hi, lo |-> lo]
    ELSE LET carry == (lo * 16) \div U16
             mhi == hi * 16 + carry
             mlo == (lo * 16) % U16
             add == ToAdd(Head(s))
         IN  IF checks /\ mhi >= U16 THEN PANIC
             ELSE IF add = -1 THEN PANIC
             ELSE HexLoop(Tail(s), mhi % U16, mlo + add, checks)

U32FromHexStr(s, checks) == HexLoop(s, 0, 0, checks)

\* `x as u16'
AsU16(v) == v.lo

\* ------------------------------------------------------------- commands
NoCmd == [kind |-> "none"]
QuitCommand == [kind |-> "quit"]
DumpCommand(seg, addr) == [kind |-> "dump", seg |-> seg, addr |-> addr]
ContinueCommand(trace) == [kind |-> "continue", trace |-> trace]
TraceCommand == [kind |-> "trace"]

\* console messages
NoMsg == "none"
BadCommand == "Bad command."
UsageD == "Usage: d [segment] [address]"

Word(l, i) == IF Len(l) >= i THEN l[i] ELSE <<>>
HasWord(l, i) == Len(l) >= i

\* variant: a word that is no command word is taken as `c'
ParseLineLenient(l, checks) ==
    IF HasWord(l, 1) /\ l[1] = TOK_q
    THEN [res |-> "send", cmd |-> QuitCommand]
    ELSE IF HasWord(l, 1) /\ l[1] = TOK_d
    THEN IF HasWord(l, 2) /\ HasWord(l, 3)
         THEN LET seg == U32FromHexStr(l[2], checks)
                  addr == IF seg = PANIC THEN PANIC
                          ELSE U32FromHexStr(l[3], checks)
              IN  IF seg = PANIC \/ addr = PANIC
                  THEN [res |-> "panic", cmd |-> NoCmd]
                  ELSE [res |-> "send",
                        cmd |-> DumpCommand(AsU16(seg), AsU16(addr))]
         ELSE [res |-> "usage", cmd |-> NoCmd]
    ELSE IF HasWord(l, 1)
    THEN [res |-> "send", cmd |-> ContinueCommand(l[1] = TOK_t)]
    ELSE [res |-> "bad", cmd |-> NoCmd]

\* variant: the trace flag is set for `c' instead of `t'
ParseLineTraceSwapped(l, checks) ==
    IF HasWord(l, 1) /\ l[1] = TOK_q
    THEN [res |-> "send", cmd |-> QuitCommand]
    ELSE IF HasWord(l, 1) /\ l[1] = TOK_d
    THEN IF HasWord(l, 2) /\ HasWord(l, 3)
         THEN LET seg == U32FromHexStr(l[2], checks)
                  addr == IF seg = PANIC THEN PANIC
                          ELSE U32FromHexStr(l[3], checks)
              IN  IF seg = PANIC \/ addr = PANIC
                  THEN [res |-> "panic", cmd |-> NoCmd]
                  ELSE [res |-> "send",
                        cmd |-> DumpCommand(AsU16(seg), AsU16(addr))]
         ELSE [res |-> "usage", cmd |-> NoCmd]
    ELSE IF HasWord(l, 1) /\ (l[1] = TOK_c \/ l[1] = TOK_t)
    THEN [res |-> "send", cmd |-> ContinueCommand(l[1] = TOK_c)]
    ELSE [res |-> "bad", cmd |-> NoCmd]

\* variant: the first argument of `d' is parsed before the second is looked for
ParseLineEager(l, checks) ==
    IF HasWord(l, 1) /\ l[1] = TOK_q
    THEN [res |-> "send", cmd |-> QuitCommand]
    ELSE IF HasWord(l, 1) /\ l[1] = TOK_d
    THEN IF HasWord(l, 2)
         THEN LET seg == U32FromHexStr(l[2], checks)
                  addr == IF seg = PANIC \/ ~HasWord(l, 3) THEN PANIC
                          ELSE U32FromHexStr(l[3], checks)
              IN  IF seg = PANIC
                  THEN [res |-> "panic", cmd |-> NoCmd]
                  ELSE IF ~HasWord(l, 3)
                  THEN [res |-> "usage", cmd |-> NoCmd]
                  ELSE IF addr = PANIC
                  THEN [res |-> "panic", cmd |-> NoCmd]
                  ELSE [res |-> "send",
                        cmd |-> DumpCommand(AsU16(seg), AsU16(addr))]
         ELSE [res |-> "usage", cmd |-> NoCmd]
    ELSE IF HasWord(l, 1) /\ (l[1] = TOK_c \/ l[1] = TOK_t)
    THEN [res |-> "send", cmd |-> ContinueCommand(l[1] = TOK_t)]
    ELSE [res |-> "bad", cmd |-> NoCmd]

\* The body of console_thread's `match word0': what the line becomes.
\*   res = "send"  : cmd is sent on the channel
\*   res = "usage" : usage message, continue
\*   res = "bad"   : "Bad command.", continue
\*   res = "panic" : u32_from_hex_str panicked
ParseLine(l, checks) ==
    IF HasWord(l, 1) /\ l[1] = TOK_q
    THEN [res |-> "send", cmd |-> QuitCommand]
    ELSE IF HasWord(l, 1) /\ l[1] = TOK_d
    THEN IF HasWord(l, 2) /\ HasWord(l, 3)
         THEN LET seg == U32FromHexStr(l[2], checks)
                  addr == IF seg = PANIC THEN PANIC
                          ELSE U32FromHexStr(l[3], checks)
              IN  IF seg = PANIC \/ addr = PANIC
                  THEN [res |-> "panic", cmd |-> NoCmd]
                  ELSE [res |-> "send",
                        cmd |-> DumpCommand(AsU16(seg), AsU16(addr))]
         ELSE [res |-> "usage", cmd |-> NoCmd]
    ELSE IF HasWord(l, 1) /\ (l[1] = TOK_c \/ l[1] = TOK_t)
    THEN [res |-> "send", cmd |-> ContinueCommand(l[1] = TOK_t)]
    ELSE [res |-> "bad", cmd |-> NoCmd]

\* ---------------------------------------------------------------- state
VARIABLES
    proc,          \* "start" | "failed" | "alive" | "exited"
    exitCode,      \* process exit status, -1 while alive
    overflowChecks,\* build profile: integer overflow traps (TRUE) or wraps
    conPc,         \* console thread: "prompt" | "read" | "parse" | "send" | "panicked"
    line,          \* the line last read
    cmd,           \* the command value built from it, not yet sent
    out,           \* message the console printed for the current line
    nread,         \* lines read so far
    chan,          \* the sync_channel buffer
    emuPc,         \* emulator thread: "poll" | "exec" | "step"
    cur,           \* command taken from the channel by try_recv
    iterExec,      \* execute() calls in the current loop iteration
    iterStep,      \* step() calls in the current loop iteration
    inMachine,     \* machine operations in progress: [thread, op]
    touched,       \* threads that have accessed the machine
    m,             \* machine: [running, trace, pc]
    breakpoints,   \* breakpoint set of the machine driver
    emuOut,        \* last output of the emulator thread
    sent,          \* commands sent on the channel, in order
    executed,      \* commands executed by the emulator, in order
    args,          \* command line: [flag_boot, flag_fd, flag_hd]
    boot,          \* what Machine::new was given: [drive, fd, hd]
    hexIn,         \* string handed to u32_from_hex_str
    hexOut         \* what u32_from_hex_str made of it

conVars == <<conPc, line, cmd, out, nread>>
emuVars == <<emuPc, cur, iterExec, iterStep>>
machVars == <<m, breakpoints, emuOut>>
envVars == <<overflowChecks, args, boot, hexIn, hexOut>>
vars == <<proc, exitCode, overflowChecks, conPc, line, cmd, out, nread, chan,
          emuPc, cur, iterExec, iterStep, inMachine, touched, m, breakpoints,
          emuOut, sent, executed, args, boot, hexIn, hexOut>>

Alive == proc = "alive"

\* ------------------------------------------------------------- machine
\* Machine::new: the run flag after construction is not fixed by main.rs
MachineNew(run, pc) == [running |-> run, trace |-> FALSE, pc |-> pc]

\* Machine::resume(trace)
Resume(mach, trace) == [mach EXCEPT !.running = TRUE, !.trace = trace]

\* Machine::step: one instruction, moving (CS, IP)
MachineStep(mach, next) == [mach EXCEPT !.pc = next]

\* Machine::print_memory(seg, addr, count): read-only
PrintMemory(seg, addr, count) ==
    [kind |-> "mem", seg |-> seg, addr |-> addr, count |-> count]

\* ------------------------------------------------------ command line
NoImage == "none"
NoMachine == [running |-> FALSE, trace |-> FALSE, pc |-> <<>>]
NoBoot == [drive |-> "none"]
HexNotRun == [val |-> "none"]

\* Args as docopt decodes them
ArgsSet ==
    [flag_boot : {"fd", "hd", "cd"},
     flag_fd : {NoImage, "fd.img"},
     flag_hd : {NoImage, "hd.img"}]

\* match &args.flag_boot[..]
BootDriveOf(flag) ==
    CASE flag = "fd" -> "Floppy"
      [] flag = "hd" -> "HardDrive"
      [] OTHER -> "unrecognized"

\* variant: the image of the other drive is looked for
MissingImageCrossed(drive, a) ==
    \/ drive = "Floppy" /\ a.flag_hd = NoImage
    \/ drive = "HardDrive" /\ a.flag_fd = NoImage

\* match boot_drive: the image of the boot drive is None
MissingImage(drive, a) ==
    \/ drive = "Floppy" /\ a.flag_fd = NoImage
    \/ drive = "HardDrive" /\ a.flag_hd = NoImage

\* one of the panics of main before Machine::new
ConfigPanics(a) ==
    \/ BootDriveOf(a.flag_boot) = "unrecognized"
    \/ MissingImage(BootDriveOf(a.flag_boot), a)

Init ==
    /\ proc = "start"
    /\ exitCode = -1
    /\ overflowChecks \in BOOLEAN
    /\ args \in ArgsSet
    /\ boot = NoBoot
    /\ hexIn = <<>>
    /\ hexOut = HexNotRun
    /\ conPc = "unspawned"
    /\ line = <<>>
    /\ cmd = NoCmd
    /\ out = NoMsg
    /\ nread = 0
    /\ chan = <<>>
    /\ emuPc = "main"
    /\ cur = NoCmd
    /\ iterExec = 0
    /\ iterStep = 0
    /\ inMachine = {}
    /\ touched = {}
    /\ m = NoMachine
    /\ breakpoints = {}
    /\ emuOut = [kind |-> "none"]
    /\ sent = <<>>
    /\ executed = <<>>

\* ---------------------------------------------------------- main thread
\* main panics on the boot drive or its image: the process ends
MainPanic ==
    /\ proc = "start"
    /\ ConfigPanics(args)
    /\ proc' = "failed"
    /\ exitCode' = PANIC_EXIT
    /\ UNCHANGED <<envVars, conVars, chan, emuVars, inMachine, touched,
                   machVars, sent, executed>>

\* Machine::new, m.dump(), the channel, the console thread; the loop begins
MainStart ==
    /\ proc = "start"
    /\ ~ConfigPanics(args)
    /\ proc' = "alive"
    /\ \E run \in BOOLEAN : \E pc \in PCs : m' = MachineNew(run, pc)
    /\ boot' = [drive |-> BootDriveOf(args.flag_boot),
                fd |-> args.flag_fd, hd |-> args.flag_hd]
    /\ touched' = touched \cup {EMU}
    /\ conPc' = "prompt"
    /\ emuPc' = "poll"
    /\ UNCHANGED <<exitCode, overflowChecks, args, hexIn, hexOut, line, cmd,
                   out, nread, chan, cur, iterExec, iterStep, inMachine,
                   breakpoints, emuOut, sent, executed>>

\* ------------------------------------------------------ console thread
\* print!("debug> "); flush
ConsolePrompt ==
    /\ Alive
    /\ conPc = "prompt"
    /\ conPc' = "read"
    /\ UNCHANGED <<proc, exitCode, envVars, line, cmd, out, nread, chan,
                   emuVars, inMachine, touched, machVars, sent, executed>>

\* io::stdin().read_line: blocks until the user enters a line
ConsoleReadLine ==
    /\ Alive
    /\ conPc = "read"
    /\ nread < MaxLines
    /\ \E l \in Lines : line' = l
    /\ nread' = nread + 1
    /\ out' = NoMsg
    /\ cmd' = NoCmd
    /\ conPc' = "parse"
    /\ UNCHANGED <<proc, exitCode, envVars, chan, emuVars, inMachine,
                   touched, machVars, sent, executed>>

\* variant: the `d' arm calls m.print_memory on the console thread
ConsoleParseDirect ==
    /\ Alive
    /\ conPc = "parse"
    /\ LET p == ParseLine(line, overflowChecks)
       IN  /\ cmd' = NoCmd
           /\ conPc' = CASE p.res = "send" /\ p.cmd.kind # "dump" -> "send"
                         [] p.res = "panic" -> "panicked"
                         [] OTHER -> "prompt"
           /\ out' = CASE p.res = "bad" -> BadCommand
                       [] p.res = "usage" -> UsageD
                       [] OTHER -> out
           /\ IF p.res = "send" /\ p.cmd.kind = "dump"
              THEN /\ touched' = touched \cup {CON}
                   /\ emuOut' = PrintMemory(p.cmd.seg, p.cmd.addr, DUMP_COUNT)
              ELSE UNCHANGED <<touched, emuOut>>
    /\ UNCHANGED <<proc, exitCode, envVars, line, nread, chan, emuVars,
                   inMachine, m, breakpoints, sent, executed>>

\* split_whitespace and the match on word0
ConsoleParse ==
    /\ Alive
    /\ conPc = "parse"
    /\ LET p == ParseLine(line, overflowChecks)
       IN  /\ cmd' = p.cmd
           /\ conPc' = CASE p.res = "send" -> "send"
                         [] p.res = "panic" -> "panicked"
                         [] OTHER -> "prompt"
           /\ out' = CASE p.res = "bad" -> BadCommand
                       [] p.res = "usage" -> UsageD
                       [] OTHER -> out
    /\ UNCHANGED <<proc, exitCode, envVars, line, nread, chan, emuVars,
                   inMachine, touched, machVars, sent, executed>>

\* variant: a send that never waits for room in the buffer
ConsoleSendAsync ==
    /\ Alive
    /\ conPc = "send"
    /\ chan' = Append(chan, cmd)
    /\ sent' = Append(sent, cmd)
    /\ cmd' = NoCmd
    /\ conPc' = "prompt"
    /\ UNCHANGED <<proc, exitCode, envVars, line, out, nread, emuVars,
                   inMachine, touched, machVars, executed>>

\* tx.send(cmd): blocks while the buffer is full
ConsoleSend ==
    /\ Alive
    /\ conPc = "send"
    /\ Len(chan) < CHANNEL_BOUND
    /\ chan' = Append(chan, cmd)
    /\ sent' = Append(sent, cmd)
    /\ cmd' = NoCmd
    /\ conPc' = "prompt"
    /\ UNCHANGED <<proc, exitCode, envVars, line, out, nread, emuVars,
                   inMachine, touched, machVars, executed>>

\* ----------------------------------------------------- emulator thread
\* variant: the received command is left in the channel buffer
EmuPollRecvPeek ==
    /\ Alive
    /\ emuPc = "poll"
    /\ chan # <<>>
    /\ cur' = Head(chan)
    /\ emuPc' = "exec"
    /\ iterExec' = 0
    /\ iterStep' = 0
    /\ inMachine' = inMachine \cup {[thread |-> EMU, op |-> "exec"]}
    /\ touched' = touched \cup {EMU}
    /\ UNCHANGED <<proc, exitCode, envVars, conVars, chan, machVars,
                   sent, executed>>

\* variant: the channel is polled only while the machine is paused
EmuPollRecvWhenPaused ==
    /\ Alive
    /\ emuPc = "poll"
    /\ chan # <<>>
    /\ ~m.running
    /\ cur' = Head(chan)
    /\ chan' = Tail(chan)
    /\ emuPc' = "exec"
    /\ iterExec' = 0
    /\ iterStep' = 0
    /\ inMachine' = inMachine \cup {[thread |-> EMU, op |-> "exec"]}
    /\ touched' = touched \cup {EMU}
    /\ UNCHANGED <<proc, exitCode, envVars, conVars, machVars, sent,
                   executed>>

\* variant: the channel is also polled from inside a step in progress
EmuPollRecvAnytime ==
    /\ Alive
    /\ emuPc \in {"poll", "step"}
    /\ chan # <<>>
    /\ cur' = Head(chan)
    /\ chan' = Tail(chan)
    /\ emuPc' = "exec"
    /\ iterExec' = 0
    /\ iterStep' = 0
    /\ inMachine' = inMachine \cup {[thread |-> EMU, op |-> "exec"]}
    /\ touched' = touched \cup {EMU}
    /\ UNCHANGED <<proc, exitCode, envVars, conVars, machVars, sent,
                   executed>>

\* rx.try_recv() returns Ok(cmd): (*cmd).execute(&mut m) is entered
EmuPollRecv ==
    /\ Alive
    /\ emuPc = "poll"
    /\ chan # <<>>
    /\ cur' = Head(chan)
    /\ chan' = Tail(chan)
    /\ emuPc' = "exec"
    /\ iterExec' = 0
    /\ iterStep' = 0
    /\ inMachine' = inMachine \cup {[thread |-> EMU, op |-> "exec"]}
    /\ touched' = touched \cup {EMU}
    /\ UNCHANGED <<proc, exitCode, envVars, conVars, machVars, sent,
                   executed>>

\* variant: Err(Disconnected) ends the loop instead of stepping
EmuPollEmptyStopOnDisconnect ==
    /\ Alive
    /\ emuPc = "poll"
    /\ chan = <<>>
    /\ conPc # "panicked"
    /\ emuPc' = "step"
    /\ iterExec' = 0
    /\ iterStep' = 0
    /\ inMachine' = inMachine \cup {[thread |-> EMU, op |-> "step"]}
    /\ touched' = touched \cup {EMU}
    /\ UNCHANGED <<proc, exitCode, envVars, conVars, chan, cur, machVars,
                   sent, executed>>

\* variant: a blocking rx.recv(), which fails only once the sender is gone
EmuPollBlocking ==
    /\ Alive
    /\ emuPc = "poll"
    /\ chan = <<>>
    /\ conPc = "panicked"
    /\ emuPc' = "step"
    /\ iterExec' = 0
    /\ iterStep' = 0
    /\ inMachine' = inMachine \cup {[thread |-> EMU, op |-> "step"]}
    /\ touched' = touched \cup {EMU}
    /\ UNCHANGED <<proc, exitCode, envVars, conVars, chan, cur, machVars,
                   sent, executed>>

\* rx.try_recv() returns Err(_) (empty or disconnected): m.step() is entered
EmuPollEmpty ==
    /\ Alive
    /\ emuPc = "poll"
    /\ chan = <<>>
    /\ emuPc' = "step"
    /\ iterExec' = 0
    /\ iterStep' = 0
    /\ inMachine' = inMachine \cup {[thread |-> EMU, op |-> "step"]}
    /\ touched' = touched \cup {EMU}
    /\ UNCHANGED <<proc, exitCode, envVars, conVars, chan, cur, machVars,
                   sent, executed>>

\* variant: DumpCommand::execute also resumes the machine
ExecuteMachineDumpResumes(c, mach) ==
    CASE c.kind = "continue" -> Resume(mach, c.trace)
      [] c.kind = "dump" -> Resume(mach, FALSE)
      [] OTHER -> mach

\* the effect of Command::execute on the machine
ExecuteMachine(c, mach) ==
    CASE c.kind = "continue" -> Resume(mach, c.trace)
      [] OTHER -> mach

\* what Command::execute prints
ExecuteOutput(c, prev) ==
    CASE c.kind = "dump" -> PrintMemory(c.seg, c.addr, DUMP_COUNT)
      [] c.kind = "trace" -> [kind |-> "not yet implemented"]
      [] OTHER -> prev

\* variant: after execute() the iteration falls through into m.step()
EmuExecuteThenStep ==
    /\ Alive
    /\ emuPc = "exec"
    /\ executed' = Append(executed, cur)
    /\ iterExec' = iterExec + 1
    /\ iterStep' = iterStep + 1
    /\ \E next \in PCs : m' = MachineStep(ExecuteMachine(cur, m), next)
    /\ emuOut' = ExecuteOutput(cur, emuOut)
    /\ IF cur.kind = "quit"
       THEN /\ proc' = "exited"
            /\ exitCode' = EXIT_OK
            /\ UNCHANGED <<emuPc, inMachine>>
       ELSE /\ emuPc' = "poll"
            /\ inMachine' = inMachine \ {[thread |-> EMU, op |-> "exec"]}
            /\ UNCHANGED <<proc, exitCode>>
    /\ UNCHANGED <<envVars, conVars, chan, cur, touched, breakpoints,
                   sent>>

\* variant: QuitCommand::execute returns without ending the process
EmuExecuteNoExit ==
    /\ Alive
    /\ emuPc = "exec"
    /\ executed' = Append(executed, cur)
    /\ iterExec' = iterExec + 1
    /\ m' = ExecuteMachine(cur, m)
    /\ emuOut' = ExecuteOutput(cur, emuOut)
    /\ emuPc' = "poll"
    /\ inMachine' = inMachine \ {[thread |-> EMU, op |-> "exec"]}
    /\ UNCHANGED <<proc, exitCode, envVars, conVars, chan, cur, iterStep,
                   touched, breakpoints, sent>>

\* (*cmd).execute(&mut m) runs to its end; QuitCommand ends the process
EmuExecute ==
    /\ Alive
    /\ emuPc = "exec"
    /\ executed' = Append(executed, cur)
    /\ iterExec' = iterExec + 1
    /\ m' = ExecuteMachine(cur, m)
    /\ emuOut' = ExecuteOutput(cur, emuOut)
    /\ IF cur.kind = "quit"
       THEN /\ proc' = "exited"
            /\ exitCode' = EXIT_OK
            /\ UNCHANGED <<emuPc, inMachine>>
       ELSE /\ emuPc' = "poll"
            /\ inMachine' = inMachine \ {[thread |-> EMU, op |-> "exec"]}
            /\ UNCHANGED <<proc, exitCode>>
    /\ UNCHANGED <<envVars, conVars, chan, cur, iterStep, touched,
                   breakpoints, sent>>

\* m.step() runs to its end
EmuStep ==
    /\ Alive
    /\ emuPc = "step"
    /\ \E next \in PCs : m' = MachineStep(m, next)
    /\ iterStep' = iterStep + 1
    /\ emuPc' = "poll"
    /\ inMachine' = inMachine \ {[thread |-> EMU, op |-> "step"]}
    /\ UNCHANGED <<proc, exitCode, envVars, conVars, chan, cur, iterExec,
                   touched, breakpoints, emuOut, sent, executed>>

ConsoleNext == ConsolePrompt \/ ConsoleReadLine \/ ConsoleParse \/ ConsoleSend
EmuNext == EmuPollRecv \/ EmuPollEmpty \/ EmuExecute \/ EmuStep

Next ==
    \/ MainPanic
    \/ MainStart
    \/ ConsolePrompt
    \/ ConsoleReadLine
    \/ ConsoleParse
    \/ ConsoleSend
    \/ EmuPollRecv
    \/ EmuPollEmpty
    \/ EmuExecute
    \/ EmuStep

Spec == Init /\ [][Next]_vars

\* the emulator thread is scheduled fairly; the console waits on the user
FairSpec == Init /\ [][Next]_vars /\ WF_vars(EmuNext)

\* ------------------------------------------------- the hex parser alone
\* characters of the long inputs: '0', 'f' and 'F'
HexAlphabet == {48, 102, 70}

\* every string of up to two bytes, and the strings over HexAlphabet of up
\* to MaxHexLen characters
HexInputs ==
    UNION { [1..n -> 0..127] : n \in 0..2 }
        \cup UNION { [1..n -> HexAlphabet] : n \in 0..MaxHexLen }

HexInit ==
    /\ proc = "start"
    /\ exitCode = -1
    /\ overflowChecks \in BOOLEAN
    /\ args = [flag_boot |-> "hd", flag_fd |-> NoImage, flag_hd |-> "hd.img"]
    /\ boot = NoBoot
    /\ hexIn \in HexInputs
    /\ hexOut = HexNotRun
    /\ conPc = "unspawned"
    /\ line = <<>>
    /\ cmd = NoCmd
    /\ out = NoMsg
    /\ nread = 0
    /\ chan = <<>>
    /\ emuPc = "main"
    /\ cur = NoCmd
    /\ iterExec = 0
    /\ iterStep = 0
    /\ inMachine = {}
    /\ touched = {}
    /\ m = NoMachine
    /\ breakpoints = {}
    /\ emuOut = [kind |-> "none"]
    /\ sent = <<>>
    /\ executed = <<>>

\* u32_from_hex_str(hexIn), and the `d' arm applied to `d hexIn hexIn'
HexApply ==
    /\ hexOut = HexNotRun
    /\ hexOut' = [val |-> U32FromHexStr(hexIn, overflowChecks),
                  dump |-> ParseLine(<<TOK_d, hexIn, hexIn>>, overflowChecks)]
    /\ UNCHANGED <<proc, exitCode, overflowChecks, args, boot, hexIn, conVars,
                   chan, emuVars, inMachine, touched, machVars, sent, executed>>

HexNext == HexApply

HexSpec == HexInit /\ [][HexNext]_vars

\* ------------------------------------------------------------ properties
EmuExecOp == [thread |-> EMU, op |-> "exec"]
EmuStepOp == [thread |-> EMU, op |-> "step"]

\* C1: every iteration of the outer loop does exactly one thing.  When
\* try_recv finds a command, the command is removed from the channel and
\* executed, and the iteration ends with one execute() and no step(); when it
\* finds none and the machine is running, step() is entered, and an iteration
\* that stepped ends with one step() and no execute().
C1_OneThingPerIteration ==
    [][ /\ (emuPc = "poll" /\ emuPc' # "poll" /\ chan # <<>>)
            => (chan' = Tail(chan) /\ cur' = Head(chan) /\ emuPc' = "exec")
        /\ (emuPc = "poll" /\ emuPc' # "poll" /\ chan = <<>> /\ m.running)
            => emuPc' = "step"
        /\ (emuPc = "exec" /\ executed' # executed)
            => (iterExec' = 1 /\ iterStep' = 0
                /\ executed' = Append(executed, cur))
        /\ (emuPc = "step" /\ emuPc' = "poll")
            => (iterStep' = 1 /\ iterExec' = 0 /\ executed' = executed)
      ]_vars

\* C1 witness: a running machine has just been stepped by an iteration, after
\* an earlier iteration executed a command
C1_Witness ==
    /\ Alive /\ emuPc = "poll" /\ iterStep = 1 /\ iterExec = 0
    /\ m.running /\ executed # <<>>

\* C2 (as claimed): while the machine is paused the outer loop never enters
\* step()
C2_PausedNeverStepped ==
    (Alive /\ EmuStepOp \in inMachine) => m.running

\* C3: the channel holds at most one command; commands are put in only by the
\* console's send and taken out only by the emulator's poll; a send issued
\* while a command is buffered stays pending until that command is removed.
C3_ChannelCapacityOne ==
    /\ [](Len(chan) <= 1)
    /\ [][ /\ (Len(chan') > Len(chan))
               => (conPc = "send" /\ conPc' = "prompt" /\ emuVars' = emuVars
                   /\ chan' = Append(chan, cmd))
           /\ (Len(chan') < Len(chan))
               => (emuPc = "poll" /\ emuPc' = "exec" /\ conVars' = conVars)
           /\ (conPc = "send" /\ Len(chan) = 1)
               => (conPc' = "send" /\ sent' = sent)
         ]_vars

\* C3 witness: the console is in send while a command is buffered
C3_Witness == Alive /\ conPc = "send" /\ Len(chan) = 1 /\ Len(sent) = 1

\* C4: a command is never applied to the machine while an instruction step
\* is in progress, and no step starts while a command is being applied.
C4_CommandsAtInstructionBoundaries ==
    /\ [](~(EmuExecOp \in inMachine /\ EmuStepOp \in inMachine))
    /\ [][ /\ (executed' # executed) => (EmuStepOp \notin inMachine)
           /\ (EmuStepOp \in inMachine' /\ EmuStepOp \notin inMachine)
               => (EmuExecOp \notin inMachine /\ EmuExecOp \notin inMachine')
           /\ (EmuStepOp \in inMachine) => (m'.running = m.running
                                            /\ m'.trace = m.trace)
         ]_vars

\* C4 witness: a resume command is being applied while the console thread is
\* busy with the next line
C4_Witness ==
    /\ Alive /\ inMachine = {EmuExecOp} /\ cur.kind = "continue"
    /\ conPc \in {"parse", "send"} /\ nread = 2

\* C5: only the emulator thread ever accesses the machine, and a step of the
\* console thread changes neither the machine nor the list of executed
\* commands.
C5_MachineOwnedByEmulator ==
    /\ [](touched \subseteq {EMU})
    /\ [](\A a \in inMachine : a.thread = EMU)
    /\ [][ (conPc # "unspawned" /\ conVars' # conVars)
              => (machVars' = machVars /\ executed' = executed
                  /\ inMachine' = inMachine) ]_vars

\* C5 witness: a dump command typed on the console has been executed, by the
\* emulator thread
C5_Witness ==
    /\ touched = {EMU} /\ emuOut.kind = "mem"
    /\ Len(executed) = 1 /\ executed[1].kind = "dump"

\* C6: with the machine running and the channel empty, the emulator's poll
\* returns and a step() follows, unless a command arrives first; this needs
\* no progress of the console thread.
C6_EmulatorNeverWaits ==
    (Alive /\ emuPc = "poll" /\ chan = <<>> /\ m.running)
        ~> (EmuStepOp \in inMachine \/ chan # <<>>)

\* C6 witness: the emulator steps a running machine after the console thread
\* has terminated
C6_Witness ==
    /\ Alive /\ conPc = "panicked" /\ m.running
    /\ emuPc = "step" /\ chan = <<>>

\* C7 (as claimed): once the hex parser has panicked on a `d' line, the
\* emulator thread performs no further step() and executes no further command
C7_MalformedHexStopsEmulator ==
    [][ (conPc = "panicked")
           => (emuVars' = emuVars /\ machVars' = machVars
               /\ executed' = executed) ]_vars

\* C8: executing the quit command ends the process with exit code 0 at once;
\* afterwards nothing is stepped, executed, sent or received, and the command
\* the console holds stays undelivered.
C8_QuitExitsAtOnce ==
    /\ [](proc = "exited"
            => (exitCode = 0 /\ executed # <<>>
                /\ executed[Len(executed)] = QuitCommand))
    /\ [][ /\ (emuPc = "exec" /\ cur = QuitCommand /\ executed' # executed)
               => (proc' = "exited" /\ exitCode' = 0 /\ m' = m)
           /\ (proc = "exited")
               => (m' = m /\ executed' = executed /\ chan' = chan
                   /\ sent' = sent /\ emuVars' = emuVars /\ cmd' = cmd)
           /\ (proc' = "exited" /\ proc # "exited")
               => (emuPc = "exec" /\ cur = QuitCommand)
         ]_vars

\* C8 witness: the process has exited on quit while the console still holds
\* a parsed command it has not delivered
C8_Witness ==
    /\ proc = "exited" /\ exitCode = 0
    /\ conPc = "send" /\ cmd = ContinueCommand(FALSE)

IsBreakLine(l) == Len(l) = 3 /\ l[1] = TOK_b

\* the console is done with its last line and the emulator has drained the
\* channel
LineSettled ==
    /\ Alive /\ nread > 0 /\ conPc \in {"prompt", "read"}
    /\ chan = <<>> /\ emuPc = "poll"

\* C9 (as claimed): a line `b <seg> <off>' is accepted as a command, and once
\* it has been dealt with (seg, off) is in the breakpoint set
C9_BreakpointInserted ==
    (LineSettled /\ IsBreakLine(line))
        => /\ out # BadCommand
           /\ <<AsU16(U32FromHexStr(line[2], overflowChecks)),
             AsU16(U32FromHexStr(line[3], overflowChecks))>> \in breakpoints

\* C10 (as claimed): an empty line is not answered with "Bad command."
C10_EmptyLineSingleSteps ==
    (LineSettled /\ line = <<>>) => out # BadCommand

\* the command words of the debugger grammar
GrammarWords == {TOK_q, TOK_b, TOK_d, TOK_u, TOK_c, TOK_t, TOK_w}

\* a hex argument every build parses: one to eight characters of 0-9a-f
ValidHexToken(s) ==
    /\ Len(s) >= 1 /\ Len(s) <= 8
    /\ \A i \in 1..Len(s) : IsDecDigit(s[i]) \/ IsHexLetter(s[i])

\* a line of the grammar with the arguments its command word requires
WellFormedLine(l) ==
    /\ Len(l) >= 1
    /\ \/ l[1] \in {TOK_q, TOK_c, TOK_t}
       \/ /\ l[1] \in {TOK_b, TOK_d, TOK_u}
          /\ Len(l) = 3 /\ ValidHexToken(l[2]) /\ ValidHexToken(l[3])
       \/ l[1] = TOK_w /\ Len(l) = 2

\* C11 (as claimed): a well-formed line of the grammar (q, b, d, u, c, t, w)
\* is not answered with "Bad command." and puts exactly one command on the
\* channel
C11_GrammarLinesAccepted ==
    (Alive /\ nread = 1 /\ conPc \in {"prompt", "read"} /\ WellFormedLine(line))
        => (out # BadCommand /\ Len(sent) = 1)

\* C12: when the console parses a line whose first token is no command word,
\* it prints "Bad command.", goes back to the prompt with no command to send,
\* and leaves the channel and the machine as they were.
C12_UnknownWordRejected ==
    [][ (conPc = "parse" /\ conPc' # "parse"
         /\ Len(line) >= 1 /\ line[1] \notin GrammarWords)
           => (out' = BadCommand /\ conPc' = "prompt" /\ cmd' = NoCmd
               /\ chan' = chan /\ sent' = sent /\ machVars' = machVars
               /\ executed' = executed) ]_vars

\* C12 witness: the line `x' has been answered with "Bad command." and
\* nothing was sent
C12_Witness ==
    /\ Alive /\ conPc = "prompt" /\ line = <<TOK_x>> /\ nread = 1
    /\ out = BadCommand /\ sent = <<>> /\ chan = <<>>

\* C13: `c' becomes ContinueCommand{trace: false} and `t' becomes
\* ContinueCommand{trace: true}; executing either makes the machine running,
\* sets the trace flag to the command's flag and changes nothing else of the
\* machine.
C13_ContinueAndTrace ==
    [][ /\ (conPc = "parse" /\ conPc' # "parse" /\ Len(line) >= 1
            /\ line[1] = TOK_c)
              => (cmd' = ContinueCommand(FALSE) /\ conPc' = "send")
        /\ (conPc = "parse" /\ conPc' # "parse" /\ Len(line) >= 1
            /\ line[1] = TOK_t)
              => (cmd' = ContinueCommand(TRUE) /\ conPc' = "send")
        /\ (emuPc = "exec" /\ cur.kind = "continue" /\ executed' # executed)
              => (m'.running /\ m'.trace = cur.trace /\ m'.pc = m.pc
                  /\ breakpoints' = breakpoints)
      ]_vars

\* C13 witness: a paused machine was resumed with tracing by the line `t'
C13_Witness ==
    /\ Alive /\ emuPc = "poll" /\ line = <<TOK_t>> /\ nread = 1
    /\ executed = <<ContinueCommand(TRUE)>> /\ m.running /\ m.trace

\* C15: executing a dump command prints the 16 bytes at seg:off of the
\* command and leaves the machine (run flag, trace flag, registers) and the
\* breakpoints as they were; no step() is made in that iteration.
C15_DumpIsReadOnly ==
    [][ (emuPc = "exec" /\ cur.kind = "dump" /\ executed' # executed)
           => (m' = m /\ breakpoints' = breakpoints
               /\ emuOut' = PrintMemory(cur.seg, cur.addr, 16)
               /\ iterStep' = 0 /\ proc' = proc) ]_vars

\* C15 witness: `d 1007c 0000' was executed on a paused machine, which is
\* still paused, and printed the 16 bytes at 007c:0000
C15_Witness ==
    /\ Alive /\ emuPc = "poll" /\ ~m.running /\ iterStep = 0
    /\ executed = <<DumpCommand(124, 0)>>
    /\ emuOut = [kind |-> "mem", seg |-> 124, addr |-> 0, count |-> 16]

\* the command execute() is working on
InFlight == IF Alive /\ emuPc = "exec" THEN <<cur>> ELSE <<>>

\* C16: the commands executed, then the one being executed, then the one
\* buffered are exactly the commands sent, in order: nothing is duplicated,
\* reordered or skipped, and the executed commands are a prefix of the sent.
C16_ExecutedInSendOrder ==
    /\ sent = executed \o InFlight \o chan
    /\ Len(executed) <= Len(sent)
    /\ \A i \in 1..Len(executed) : executed[i] = sent[i]

\* C16 witness: two different commands were sent and executed in that order
C16_Witness ==
    /\ Len(sent) = 2 /\ sent[1] # sent[2] /\ executed = sent

\* C17: under fair scheduling of the emulator thread the k-th command sent is
\* executed unless the process has exited on a quit; a poll that finds a
\* command takes it at once; a full channel is emptied, so a console blocked
\* in send can go on.
C17_SentIsEventuallyExecuted ==
    /\ \A k \in 1..(MaxLines + 1) :
          (Len(sent) >= k) ~> (Len(executed) >= k \/ proc = "exited")
    /\ (Alive /\ conPc = "send" /\ Len(chan) = CHANNEL_BOUND)
          ~> (Len(chan) < CHANNEL_BOUND \/ proc = "exited")
    /\ [][ (emuPc = "poll" /\ emuPc' # "poll" /\ chan # <<>>)
              => (emuPc' = "exec" /\ cur' = Head(chan)) ]_vars

\* C17 witness: the console was blocked in send behind a buffered command and
\* both commands have been executed
C17_Witness ==
    /\ Alive /\ Len(executed) = 2 /\ executed[1].kind = "continue"
    /\ chan = <<>> /\ conPc \in {"prompt", "read"}

\* the console thread is gone and its last command has been dealt with
ConsoleGone ==
    /\ Alive /\ conPc = "panicked" /\ chan = <<>> /\ emuPc # "exec"

\* C18: once the console thread has panicked, nothing more is sent; when the
\* buffered command (if any) has been executed the emulator stays alive,
\* executes no further command, answers every failed poll with a step(), and
\* steps again and again.
C18_DisconnectedMeansStepForever ==
    /\ [][ /\ (conPc = "panicked")
               => (conPc' = "panicked" /\ sent' = sent
                   /\ Len(chan') <= Len(chan))
           /\ ConsoleGone
               => (ConsoleGone' /\ executed' = executed
                   /\ m'.running = m.running /\ m'.trace = m.trace)
           /\ (ConsoleGone /\ emuPc = "poll" /\ emuPc' # "poll")
               => emuPc' = "step"
         ]_vars
    /\ (ConsoleGone /\ emuPc = "poll") ~> (ConsoleGone /\ emuPc = "step")
    /\ (ConsoleGone /\ emuPc = "step") ~> (ConsoleGone /\ emuPc = "poll")

\* C18 witness: the console panicked while its previous command was still
\* buffered; that command has been executed and the emulator is stepping
C18_Witness ==
    /\ ConsoleGone /\ emuPc = "step" /\ Len(executed) = 1 /\ nread = 2

\* C20: when the console parses a `d' line with fewer than two arguments it
\* prints the usage message and goes back to the prompt: the thread does not
\* panic whatever the argument is, no command is built or sent, and the
\* channel and the machine are as they were.
C20_DumpWithoutArgsRejected ==
    [][ (conPc = "parse" /\ conPc' # "parse" /\ Len(line) >= 1
         /\ line[1] = TOK_d /\ Len(line) < 3)
           => (out' = UsageD /\ conPc' = "prompt" /\ cmd' = NoCmd
               /\ chan' = chan /\ sent' = sent /\ machVars' = machVars
               /\ executed' = executed) ]_vars

\* C20 witness: `d 7C00', whose only argument is not valid hex, was answered
\* with the usage message and nothing was sent
C20_Witness ==
    /\ Alive /\ conPc = "prompt" /\ line = <<TOK_d, TOK_7C00>> /\ nread = 1
    /\ out = UsageD /\ sent = <<>> /\ chan = <<>>

\* C14: main ends with a non-zero status, before the machine, the console
\* thread and the emulator loop exist, exactly when --boot is neither fd nor
\* hd or the boot drive has no image; otherwise the machine is constructed
\* with the chosen boot drive and the two image arguments.
BadConfiguration ==
    \/ args.flag_boot \notin {"fd", "hd"}
    \/ args.flag_boot = "fd" /\ args.flag_fd = NoImage
    \/ args.flag_boot = "hd" /\ args.flag_hd = NoImage

C14_ConfigurationErrorsAreFatal ==
    /\ [](proc # "start" => (proc = "failed" <=> BadConfiguration))
    /\ [](proc = "failed"
            => (exitCode # 0 /\ exitCode # -1 /\ m = NoMachine
                /\ boot = NoBoot /\ conPc = "unspawned" /\ emuPc = "main"
                /\ touched = {} /\ nread = 0))
    /\ [](proc \in {"alive", "exited"}
            => (m # NoMachine
                /\ boot = [drive |-> IF args.flag_boot = "fd" THEN "Floppy"
                                     ELSE "HardDrive",
                           fd |-> args.flag_fd, hd |-> args.flag_hd]))
    /\ [][proc = "failed" => UNCHANGED vars]_vars

\* C14 witness: booting from floppy with only a hard-drive image has failed
C14_Witness ==
    /\ proc = "failed" /\ exitCode = 101
    /\ args = [flag_boot |-> "fd", flag_fd |-> NoImage, flag_hd |-> "hd.img"]

\* the characters 0-9 and a-f
LowerHexChars == (48..57) \cup (97..102)
IsLowerHex(s) == \A i \in 1..Len(s) : s[i] \in LowerHexChars

\* the digit a character stands for, by its place in "0123456789abcdef"
HexDigitChars == <<48, 49, 50, 51, 52, 53, 54, 55, 56, 57,
                   97, 98, 99, 100, 101, 102>>
DigitOf(c) == (CHOOSE i \in 1..16 : HexDigitChars[i] = c) - 1

RECURSIVE Pow16(_)
Pow16(n) == IF n = 0 THEN 1 ELSE 16 * Pow16(n - 1)

\* base-16 value of s[from..to], first character most significant
RECURSIVE PlaceValue(_, _, _)
PlaceValue(s, from, to) ==
    IF from > to THEN 0
    ELSE DigitOf(s[from]) * Pow16(to - from) + PlaceValue(s, from + 1, to)

\* the value of s modulo 2^16 and divided by 2^16
ValueLow(s) == PlaceValue(s, IF Len(s) > 4 THEN Len(s) - 3 ELSE 1, Len(s))
ValueHigh(s) == PlaceValue(s, 1, Len(s) - 4)

\* C19: for a string of at most 8 characters of 0-9a-f (the empty one
\* included) u32_from_hex_str returns its base-16 value, first character most
\* significant, and a `d' command built from it carries that value modulo
\* 2^16; a string with any other character, uppercase A-F included, makes the
\* parser panic.
C19_HexParser ==
    (hexOut # HexNotRun) =>
        /\ (IsLowerHex(hexIn) /\ Len(hexIn) <= 8)
              => /\ hexOut.val = [hi |-> ValueHigh(hexIn), lo |-> ValueLow(hexIn)]
                 /\ hexIn # <<>>
                       => hexOut.dump =
                            [res |-> "send",
                             cmd |-> [kind |-> "dump", seg |-> ValueLow(hexIn),
                                      addr |-> ValueLow(hexIn)]]
        /\ (hexIn = <<>>) => hexOut.val = [hi |-> 0, lo |-> 0]
        /\ (~IsLowerHex(hexIn))
              => (hexOut.val = PANIC /\ hexOut.dump.res = "panic")

\* C19 witness: "f0f0f" was parsed as 0x000f0f0f and gives segment 0x0f0f
C19_Witness ==
    /\ hexIn = <<102, 48, 102, 48, 102>>
    /\ hexOut # HexNotRun
    /\ hexOut.val = [hi |-> 15, lo |-> 3855]
    /\ hexOut.dump.cmd.seg = 3855

TypeOK ==
    /\ proc \in {"start", "failed", "alive", "exited"}
    /\ conPc \in {"unspawned", "prompt", "read", "parse", "send", "panicked"}
    /\ emuPc \in {"main", "poll", "exec", "step"}
    /\ nread \in 0..MaxLines
    /\ Len(chan) <= CHANNEL_BOUND
    /\ m.running \in BOOLEAN
====
